---------------------------- MODULE Spec2Model ----------------------------
(***************************************************************************)
(* A model of src/main.go: one FutureTask, the goroutine ReturnAFuture     *)
(* starts for it, and the goroutines that call its methods.                *)
(*                                                                         *)
(* A step is a channel operation, the guard at the head of a method        *)
(* together with what it decides, the run of field assignments of one      *)
(* branch, or a deferred call.  The fields are plain Go variables without  *)
(* locks; a read returns the value of the latest write in the              *)
(* interleaving.                                                           *)
(*                                                                         *)
(* Spec     : one caller, calls issued one at a time (spec.md section 5).  *)
(* SpecConc : several callers use the same FutureTask concurrently.        *)
(* FairSpec : Spec plus the fairness the Go scheduler gives to goroutines  *)
(*            that can run.                                                *)
(***************************************************************************)
EXTENDS Naturals, Sequences, FiniteSets

\* ------------------------------------------------------------------ bounds
NumCallers == 2
NumCallbacks == 2
NumValues == 1

Callers == 1..NumCallers
SeqCallers == {c \in Callers : \A d \in Callers : c <= d}
CallbackIds == 1..NumCallbacks
ConcCallbackIds == {f \in CallbackIds : \A g \in CallbackIds : f <= g}
NoCallback == 0

\* ------------------------------------------------------- values and errors
Nil == 0
Values == 1..NumValues

NoError == [kind |-> "nil", msg |-> ""]
TimeoutError == [kind |-> "TimeoutError", msg |-> "Request Timeout!"]
InterruptError == [kind |-> "InterruptError", msg |-> "Cancelled Manually"]
TaskMessages == {"task failed", "Cancelled Manually"}
TaskErrors == {[kind |-> "TaskError", msg |-> m] : m \in TaskMessages}

\* error.Error(): the message text of an error value.
ErrorString(e) == e.msg

\* Result{value, error}; Result{} is the zero value, which is also what a
\* receive from a closed channel yields.
ZeroResult == [value |-> Nil, error |-> NoError]
TaskResults ==
    {[value |-> v, error |-> e] : v \in Values \cup {Nil}, e \in TaskErrors \cup {NoError}}

VARIABLES
    success, error, running, done, result, callbackMethod, \* FutureTask fields
    channel,        \* channelForExecution: [closed, sendq, recvq]
    task,           \* the Result the submitted task func returns
    bgpc,           \* position of the goroutine started by ReturnAFuture
    resultObject,   \* its local variable
    pc,             \* position of each caller
    op,             \* the method each caller is in, or was in last
    deferred,       \* the callback each caller's call has deferred
    expired,        \* whether the call's context deadline has passed
    availAtDeadline,\* whether the channel could deliver when it passed
    recvTmp,        \* the value a caller's receive obtained
    ret,            \* what each caller's last call returned
    cbCount,        \* history: runs of each callback
    recvCount,      \* history: completed channel receives
    timedOut,       \* history: a call took the ctx.Done() branch
    cancelOk,       \* history: a cancel() got past its guard
    got,            \* history: the first get() that returned
    taskRuns,       \* history: invocations of the task func
    first,          \* history: the first get/getWithTimeout/cancel call
    lastReg         \* history: the last two callbacks passed to addDoneCallback,
                    \* the latest second

fields == <<success, error, done, result>>
bgVars == <<bgpc, resultObject>>
callVars == <<deferred, expired, availAtDeadline, recvTmp>>
histVars == <<cbCount, recvCount, timedOut, cancelOk, got, first, taskRuns,
             lastReg>>
vars == <<fields, running, callbackMethod, channel, task, bgVars, pc, op,
          callVars, ret, histVars>>

RECURSIVE SumOver(_, _)
SumOver(f, S) ==
    IF S = {} THEN 0
    ELSE LET x == CHOOSE y \in S : TRUE IN f[x] + SumOver(f, S \ {x})

cbTotal == SumOver(cbCount, CallbackIds)

\* ------------------------------------------------------------ ReturnAFuture
Init ==
    /\ success = FALSE
    /\ error = NoError
    /\ running = FALSE
    /\ done = FALSE
    /\ result = ZeroResult
    /\ callbackMethod = NoCallback
    /\ channel = [closed |-> FALSE, sendq |-> <<>>, recvq |-> <<>>]
    /\ task \in TaskResults
    /\ bgpc = "start"
    /\ resultObject = ZeroResult
    /\ pc = [c \in Callers |-> "idle"]
    /\ op = [c \in Callers |-> "none"]
    /\ deferred = [c \in Callers |-> NoCallback]
    /\ expired = [c \in Callers |-> FALSE]
    /\ availAtDeadline = [c \in Callers |-> FALSE]
    /\ recvTmp = [c \in Callers |-> ZeroResult]
    /\ ret = [c \in Callers |-> [ok |-> FALSE, result |-> ZeroResult]]
    /\ cbCount = [f \in CallbackIds |-> 0]
    /\ recvCount = 0
    /\ timedOut = FALSE
    /\ cancelOk = FALSE
    /\ got = [n |-> 0, result |-> ZeroResult]
    /\ first = [called |-> FALSE, cb |-> NoCallback, avail |-> FALSE]
    /\ taskRuns = 0
    /\ lastReg = <<NoCallback, NoCallback>>

\* ------------------------------------------------- the background goroutine
\* Mutant of BgStart: the goroutine forgets running = true.
BgStartNoFlag ==
    /\ bgpc = "start"
    /\ bgpc' = "task"
    /\ UNCHANGED <<fields, running, callbackMethod, channel, task, resultObject,
                   pc, op, callVars, ret, histVars>>

\* futureObject.running = true
BgStart ==
    /\ bgpc = "start"
    /\ running' = TRUE
    /\ bgpc' = "task"
    /\ UNCHANGED <<fields, callbackMethod, channel, task, resultObject, pc, op,
                   callVars, ret, histVars>>

\* resultObject := task()
BgTask ==
    /\ bgpc = "task"
    /\ resultObject' = task
    /\ taskRuns' = taskRuns + 1
    /\ bgpc' = "send"
    /\ UNCHANGED <<fields, running, callbackMethod, channel, task, pc, op,
                   callVars, ret, cbCount, recvCount, timedOut, cancelOk, got,
                   first,
                   lastReg>>

\* Mutant of BgSend: the send does not wake a receiver that is already
\* waiting; the sender parks as if nobody were there.
BgSendMissesReceiver ==
    /\ bgpc = "send"
    /\ channel' = [channel EXCEPT !.sendq = <<resultObject>>]
    /\ bgpc' = "parked"
    /\ UNCHANGED <<fields, running, callbackMethod, task, resultObject, pc, op,
                   callVars, ret, histVars>>

\* channelForExecution <- resultObject, on a channel of capacity 0: the value
\* goes straight to the longest-waiting receiver, and with none waiting the
\* sender parks in the channel's send queue.
BgSend ==
    /\ bgpc = "send"
    /\ IF channel.recvq # <<>>
       THEN LET r == Head(channel.recvq) IN
            /\ channel' = [channel EXCEPT !.recvq = Tail(@)]
            /\ recvTmp' = [recvTmp EXCEPT ![r] = resultObject]
            /\ pc' = [pc EXCEPT ![r] = "recvd"]
            /\ recvCount' = recvCount + 1
            /\ bgpc' = "close"
       ELSE /\ channel' = [channel EXCEPT !.sendq = <<resultObject>>]
            /\ bgpc' = "parked"
            /\ UNCHANGED <<recvTmp, pc, recvCount>>
    /\ UNCHANGED <<fields, running, callbackMethod, task, resultObject, op,
                   deferred, expired, availAtDeadline, ret, cbCount, timedOut,
                   cancelOk, got, first, taskRuns,
                   lastReg>>

\* deferred: close(channelForExecution); every parked receiver wakes with the
\* zero Result.
BgClose ==
    /\ bgpc = "close"
    /\ LET woken == {channel.recvq[i] : i \in 1..Len(channel.recvq)} IN
       /\ channel' = [channel EXCEPT !.closed = TRUE, !.recvq = <<>>]
       /\ recvTmp' = [c \in Callers |-> IF c \in woken THEN ZeroResult ELSE recvTmp[c]]
       /\ pc' = [c \in Callers |-> IF c \in woken THEN "recvd" ELSE pc[c]]
       /\ recvCount' = recvCount + Cardinality(woken)
    /\ bgpc' = "unrun"
    /\ UNCHANGED <<fields, running, callbackMethod, task, resultObject, op,
                   deferred, expired, availAtDeadline, ret, cbCount, timedOut,
                   cancelOk, got, first, taskRuns,
                   lastReg>>

\* deferred: futureObject.running = false
BgExit ==
    /\ bgpc = "unrun"
    /\ running' = FALSE
    /\ bgpc' = "exit"
    /\ UNCHANGED <<fields, callbackMethod, channel, task, resultObject, pc, op,
                   callVars, ret, histVars>>

\* ------------------------------------------------------- FutureTask methods
complete == done

\* Mutant of isCancelled: the message compared against is misspelt.
isCancelledWrongText ==
    done /\ error # NoError /\ ErrorString(error) = "Canceled Manually"

isCancelled ==
    done /\ error # NoError /\ ErrorString(error) = "Cancelled Manually"

isRunning == running

RetResult(r) == [ok |-> FALSE, result |-> r]
RetBool(b) == [ok |-> b, result |-> ZeroResult]
NoReturn == RetBool(FALSE)

\* History only: what the callback slot held when the first get(),
\* getWithTimeout() or cancel() call was made, and whether that call was a
\* get() made while the goroutine was parked in its send.
NoteCall(o) ==
    IF first.called THEN first
    ELSE [called |-> TRUE, cb |-> callbackMethod,
          avail |-> (o = "get" /\ channel.sendq # <<>>)]

\* History only: the Result of the first get() that returned, and whether
\* one get() or more than one have returned.
NoteGot(r) == IF got.n = 0 THEN [n |-> 1, result |-> r] ELSE [got EXCEPT !.n = 2]

\* A caller invokes futureTask.get().
getCall(c) ==
    /\ pc[c] = "idle"
    /\ pc' = [pc EXCEPT ![c] = "get"]
    /\ op' = [op EXCEPT ![c] = "get"]
    /\ ret' = [ret EXCEPT ![c] = NoReturn]
    /\ first' = NoteCall("get")
    /\ UNCHANGED <<fields, running, callbackMethod, channel, task, bgVars,
                   callVars, cbCount, recvCount, timedOut, cancelOk, got,
                   taskRuns,
                   lastReg>>

\* Mutant of get: the callback is run on the fast path too.
getCallbackOnFastPath(c) ==
    /\ pc[c] = "get"
    /\ IF done
       THEN /\ ret' = [ret EXCEPT ![c] = [ok |-> FALSE, result |-> result]]
            /\ pc' = [pc EXCEPT ![c] = "idle"]
            /\ got' = IF got.n = 0 THEN [n |-> 1, result |-> result]
                      ELSE [got EXCEPT !.n = 2]
            /\ cbCount' = IF callbackMethod = NoCallback THEN cbCount
                          ELSE [cbCount EXCEPT ![callbackMethod] = @ + 1]
            /\ UNCHANGED <<deferred, expired, availAtDeadline>>
       ELSE /\ deferred' = [deferred EXCEPT ![c] = callbackMethod]
            /\ expired' = [expired EXCEPT ![c] = FALSE]
            /\ availAtDeadline' = [availAtDeadline EXCEPT ![c] = FALSE]
            /\ pc' = [pc EXCEPT ![c] = "select"]
            /\ UNCHANGED <<ret, got, cbCount>>
    /\ UNCHANGED <<fields, running, callbackMethod, channel, task, bgVars, op,
                   recvTmp, recvCount, timedOut, cancelOk, first, taskRuns,
                   lastReg>>

\* Mutant of get: no fast path, every call waits on the channel.
getNoFastPath(c) ==
    /\ pc[c] = "get"
    /\ deferred' = [deferred EXCEPT ![c] = callbackMethod]
    /\ expired' = [expired EXCEPT ![c] = FALSE]
    /\ availAtDeadline' = [availAtDeadline EXCEPT ![c] = FALSE]
    /\ pc' = [pc EXCEPT ![c] = "select"]
    /\ UNCHANGED <<fields, running, callbackMethod, channel, task, bgVars, op,
                   recvTmp, ret, histVars>>

\* get(), lines 37-44: the cached Result when done, else defer the callback
\* and wait on a context without deadline.
get(c) ==
    /\ pc[c] = "get"
    /\ IF done
       THEN /\ ret' = [ret EXCEPT ![c] = RetResult(result)]
            /\ pc' = [pc EXCEPT ![c] = "idle"]
            /\ got' = NoteGot(result)
            /\ UNCHANGED <<deferred, expired, availAtDeadline>>
       ELSE /\ deferred' = [deferred EXCEPT ![c] = callbackMethod]
            /\ expired' = [expired EXCEPT ![c] = FALSE]
            /\ availAtDeadline' = [availAtDeadline EXCEPT ![c] = FALSE]
            /\ pc' = [pc EXCEPT ![c] = "select"]
            /\ UNCHANGED <<ret, got>>
    /\ UNCHANGED <<fields, running, callbackMethod, channel, task, bgVars, op,
                   recvTmp, cbCount, recvCount, timedOut, cancelOk, first, taskRuns,
                   lastReg>>

\* A caller invokes futureTask.getWithTimeout(d).
getWithTimeoutCall(c) ==
    /\ pc[c] = "idle"
    /\ pc' = [pc EXCEPT ![c] = "getWithTimeout"]
    /\ op' = [op EXCEPT ![c] = "getWithTimeout"]
    /\ ret' = [ret EXCEPT ![c] = NoReturn]
    /\ first' = NoteCall("getWithTimeout")
    /\ UNCHANGED <<fields, running, callbackMethod, channel, task, bgVars,
                   callVars, cbCount, recvCount, timedOut, cancelOk, got,
                   taskRuns,
                   lastReg>>

\* Mutant of getWithTimeout: no fast path, every call waits on the channel.
getWithTimeoutNoFastPath(c) ==
    /\ pc[c] = "getWithTimeout"
    /\ deferred' = [deferred EXCEPT ![c] = callbackMethod]
    /\ expired' = [expired EXCEPT ![c] = FALSE]
    /\ availAtDeadline' = [availAtDeadline EXCEPT ![c] = FALSE]
    /\ pc' = [pc EXCEPT ![c] = "select"]
    /\ UNCHANGED <<fields, running, callbackMethod, channel, task, bgVars, op,
                   recvTmp, ret, histVars>>

\* getWithTimeout(), lines 48-56: the cached Result when done, else defer
\* the callback, start the deadline (context.WithTimeout) and wait.
getWithTimeout(c) ==
    /\ pc[c] = "getWithTimeout"
    /\ IF done
       THEN /\ ret' = [ret EXCEPT ![c] = RetResult(result)]
            /\ pc' = [pc EXCEPT ![c] = "idle"]
            /\ UNCHANGED <<deferred, expired, availAtDeadline>>
       ELSE /\ deferred' = [deferred EXCEPT ![c] = callbackMethod]
            /\ expired' = [expired EXCEPT ![c] = FALSE]
            /\ availAtDeadline' = [availAtDeadline EXCEPT ![c] = FALSE]
            /\ pc' = [pc EXCEPT ![c] = "select"]
            /\ UNCHANGED ret
    /\ UNCHANGED <<fields, running, callbackMethod, channel, task, bgVars, op,
                   recvTmp, histVars>>

\* Whether a receive on the channel can proceed at once.
ChanReady == channel.sendq # <<>> \/ channel.closed

RemoveFrom(q, c) == SelectSeq(q, LAMBDA x : x # c)

\* The deadline of a getWithTimeout() call passes: ctx.Done() is closed.  A
\* caller parked in the select wakes on that case.  The duration is any
\* time.Duration, so the deadline can pass at any moment after it was set,
\* also before the caller reaches the select.
Deadline(c) ==
    /\ op[c] = "getWithTimeout"
    /\ pc[c] \in {"select", "blocked"}
    /\ ~expired[c]
    /\ expired' = [expired EXCEPT ![c] = TRUE]
    /\ availAtDeadline' = [availAtDeadline EXCEPT ![c] = ChanReady]
    /\ IF pc[c] = "blocked"
       THEN /\ pc' = [pc EXCEPT ![c] = "timeout"]
            /\ channel' = [channel EXCEPT !.recvq = RemoveFrom(@, c)]
       ELSE UNCHANGED <<pc, channel>>
    /\ UNCHANGED <<fields, running, callbackMethod, task, bgVars, op,
                   deferred, recvTmp, ret, histVars>>

\* Mutant of SelectReady: a sender parked on the channel is not noticed.
SelectReadyIgnoresSender(c) ==
    (IF expired[c] THEN {"ctx"} ELSE {}) \cup (IF channel.closed THEN {"chan"} ELSE {})

\* The cases of the select statement that can proceed.
SelectReady(c) ==
    (IF expired[c] THEN {"ctx"} ELSE {}) \cup (IF ChanReady THEN {"chan"} ELSE {})

\* getWithContext(), lines 61-69: the select.  Go picks one of the cases that
\* can proceed, pseudo-randomly when both can; with none the caller parks on
\* the channel's receive queue.
getWithContext(c) ==
    /\ pc[c] = "select"
    /\ \E branch \in (IF SelectReady(c) = {} THEN {"block"} ELSE SelectReady(c)) :
         CASE branch = "ctx" ->
                /\ pc' = [pc EXCEPT ![c] = "timeout"]
                /\ UNCHANGED <<channel, bgpc, recvTmp, recvCount>>
           [] branch = "chan" ->
                /\ pc' = [pc EXCEPT ![c] = "recvd"]
                /\ recvCount' = recvCount + 1
                /\ IF channel.sendq # <<>>
                   THEN /\ recvTmp' = [recvTmp EXCEPT ![c] = Head(channel.sendq)]
                        /\ channel' = [channel EXCEPT !.sendq = <<>>]
                        /\ bgpc' = "close"
                   ELSE /\ recvTmp' = [recvTmp EXCEPT ![c] = ZeroResult]
                        /\ UNCHANGED <<channel, bgpc>>
           [] branch = "block" ->
                /\ pc' = [pc EXCEPT ![c] = "blocked"]
                /\ channel' = [channel EXCEPT !.recvq = Append(@, c)]
                /\ UNCHANGED <<bgpc, recvTmp, recvCount>>
    /\ UNCHANGED <<fields, running, callbackMethod, task, resultObject, op,
                   deferred, expired, availAtDeadline, ret, cbCount, timedOut,
                   cancelOk, got, first, taskRuns,
                   lastReg>>

\* Mutant of TimeoutOutcome: the deadline branch forgets done = true.
TimeoutOutcomeNotDone ==
    [done |-> FALSE, success |-> FALSE, error |-> TimeoutError,
     result |-> [value |-> Nil, error |-> TimeoutError]]

\* Mutant of TimeoutOutcome: the cached Result keeps no error.
TimeoutOutcomeNoError ==
    [done |-> TRUE, success |-> FALSE, error |-> TimeoutError,
     result |-> ZeroResult]

\* Lines 63-66: the fields written on the ctx.Done() branch.
TimeoutOutcome ==
    [done |-> TRUE, success |-> FALSE, error |-> TimeoutError,
     result |-> [value |-> Nil, error |-> TimeoutError]]

\* Lines 62-67: the ctx.Done() branch.
timeoutBranch(c) ==
    /\ pc[c] = "timeout"
    /\ done' = TimeoutOutcome.done
    /\ success' = TimeoutOutcome.success
    /\ error' = TimeoutOutcome.error
    /\ result' = TimeoutOutcome.result
    /\ ret' = [ret EXCEPT ![c] = RetResult(result')]
    /\ timedOut' = TRUE
    /\ pc' = [pc EXCEPT ![c] = "defer"]
    /\ UNCHANGED <<running, callbackMethod, channel, task, bgVars, op,
                   callVars, cbCount, recvCount, cancelOk, got, first, taskRuns,
                   lastReg>>

\* Mutant of Bookkeep: the error of the received Result is not looked at.
BookkeepAlwaysSuccess(r) == [done |-> TRUE, success |-> TRUE, error |-> NoError]

\* Lines 70-78: the fields written after a receive of r.
Bookkeep(r) ==
    IF r.error # NoError
    THEN [done |-> TRUE, success |-> FALSE, error |-> r.error]
    ELSE [done |-> TRUE, success |-> TRUE, error |-> NoError]

\* Lines 69-79: the receive branch.  The received Result is stored in
\* futureTask.result, the bookkeeping follows, and futureTask.result is
\* returned.
receiveBranch(c) ==
    /\ pc[c] = "recvd"
    /\ result' = recvTmp[c]
    /\ done' = Bookkeep(result').done
    /\ success' = Bookkeep(result').success
    /\ error' = Bookkeep(result').error
    /\ ret' = [ret EXCEPT ![c] = RetResult(result')]
    /\ pc' = [pc EXCEPT ![c] = "defer"]
    /\ UNCHANGED << running, callbackMethod, channel, task, bgVars, op,
                   callVars, histVars>>

\* A caller invokes futureTask.cancel().
cancelCall(c) ==
    /\ pc[c] = "idle"
    /\ pc' = [pc EXCEPT ![c] = "cancel"]
    /\ op' = [op EXCEPT ![c] = "cancel"]
    /\ ret' = [ret EXCEPT ![c] = NoReturn]
    /\ first' = NoteCall("cancel")
    /\ UNCHANGED <<fields, running, callbackMethod, channel, task, bgVars,
                   callVars, cbCount, recvCount, timedOut, cancelOk, got,
                   taskRuns,
                   lastReg>>

\* Mutant of CancelRefused: the guard forgets isRunning().
CancelRefusedIgnoresRunning == complete \/ isCancelled

\* Mutant of CancelRefused: the guard forgets complete() and isCancelled().
CancelRefusedOnlyRunning == isRunning

\* Line 100: the condition under which cancel() returns false.
CancelRefused == complete \/ isCancelled \/ isRunning

\* cancel(), lines 100-105: the guard and the deferral of the callback.
cancel(c) ==
    /\ pc[c] = "cancel"
    /\ IF CancelRefused
       THEN /\ ret' = [ret EXCEPT ![c] = RetBool(FALSE)]
            /\ pc' = [pc EXCEPT ![c] = "idle"]
            /\ UNCHANGED deferred
       ELSE /\ deferred' = [deferred EXCEPT ![c] = callbackMethod]
            /\ pc' = [pc EXCEPT ![c] = "cancelBody"]
            /\ UNCHANGED ret
    /\ UNCHANGED <<fields, running, callbackMethod, channel, task, bgVars, op,
                   expired, availAtDeadline, recvTmp, histVars>>

\* Mutant of CancelOutcome: the cached Result is left as it was created.
CancelOutcomeNoResult ==
    [done |-> TRUE, success |-> FALSE, error |-> InterruptError,
     result |-> ZeroResult]

\* Lines 106-110: the fields written by a cancel() that got past its guard.
CancelOutcome ==
    [done |-> TRUE, success |-> FALSE, error |-> InterruptError,
     result |-> [value |-> Nil, error |-> InterruptError]]

\* cancel(), lines 106-111.
cancelBody(c) ==
    /\ pc[c] = "cancelBody"
    /\ done' = CancelOutcome.done
    /\ success' = CancelOutcome.success
    /\ error' = CancelOutcome.error
    /\ result' = CancelOutcome.result
    /\ ret' = [ret EXCEPT ![c] = RetBool(TRUE)]
    /\ cancelOk' = TRUE
    /\ pc' = [pc EXCEPT ![c] = "defer"]
    /\ UNCHANGED <<running, callbackMethod, channel, task, bgVars, op,
                   callVars, cbCount, recvCount, timedOut, got, first, taskRuns,
                   lastReg>>

\* The deferred call of get(), getWithTimeout() or cancel() runs the callback
\* that was deferred, and the method returns to its caller.
runDeferred(c) ==
    /\ pc[c] = "defer"
    /\ cbCount' = IF deferred[c] = NoCallback THEN cbCount
                  ELSE [cbCount EXCEPT ![deferred[c]] = @ + 1]
    /\ got' = IF op[c] = "get" THEN NoteGot(ret[c].result) ELSE got
    /\ deferred' = [deferred EXCEPT ![c] = NoCallback]
    /\ expired' = [expired EXCEPT ![c] = FALSE]
    /\ availAtDeadline' = [availAtDeadline EXCEPT ![c] = FALSE]
    /\ recvTmp' = [recvTmp EXCEPT ![c] = ZeroResult]
    /\ pc' = [pc EXCEPT ![c] = "idle"]
    /\ UNCHANGED <<fields, running, callbackMethod, channel, task, bgVars, op,
                   ret, recvCount, timedOut, cancelOk, first, taskRuns,
                   lastReg>>

\* Mutant of Register: a callback already registered is kept.
RegisterKeepsFirst(c, F) ==
    /\ pc[c] = "idle"
    /\ \E f \in F :
         /\ callbackMethod' = IF callbackMethod = NoCallback THEN f
                              ELSE callbackMethod
         /\ lastReg' = <<lastReg[2], f>>
    /\ UNCHANGED <<fields, running, channel, task, bgVars, pc, op, callVars,
                   ret, cbCount, recvCount, timedOut, cancelOk, got, first,
                   taskRuns>>

\* addDoneCallback(callbackMethod), line 130, with the callback drawn from F.
Register(c, F) ==
    /\ pc[c] = "idle"
    /\ \E f \in F :
         /\ callbackMethod' = f
         /\ lastReg' = <<lastReg[2], f>>
    /\ UNCHANGED <<fields, running, channel, task, bgVars, pc, op, callVars,
                   ret, cbCount, recvCount, timedOut, cancelOk, got, first,
                   taskRuns>>

addDoneCallback(c) == Register(c, CallbackIds)

\* The same with one callback function for all callers: which function is
\* registered plays no part in how concurrent calls interleave.
addDoneCallbackConc(c) == Register(c, ConcCallbackIds)

\* ----------------------------------------------------------- specifications
Background == BgStart \/ BgTask \/ BgSend \/ BgClose \/ BgExit

Returning(c) ==
    \/ get(c) \/ getWithTimeout(c) \/ Deadline(c) \/ getWithContext(c)
    \/ timeoutBranch(c) \/ receiveBranch(c)
    \/ cancel(c) \/ cancelBody(c) \/ runDeferred(c)

Next ==
    \/ BgStart \/ BgTask \/ BgSend \/ BgClose \/ BgExit
    \/ \E c \in SeqCallers :
         \/ getCall(c) \/ get(c)
         \/ getWithTimeoutCall(c) \/ getWithTimeout(c)
         \/ Deadline(c) \/ getWithContext(c)
         \/ timeoutBranch(c) \/ receiveBranch(c)
         \/ cancelCall(c) \/ cancel(c) \/ cancelBody(c)
         \/ runDeferred(c) \/ addDoneCallback(c)

\* One caller, one call at a time.
Spec == Init /\ [][Next]_vars

NextConc ==
    \/ BgStart \/ BgTask \/ BgSend \/ BgClose \/ BgExit
    \/ \E c \in Callers :
         \/ getCall(c) \/ get(c)
         \/ getWithTimeoutCall(c) \/ getWithTimeout(c)
         \/ Deadline(c) \/ getWithContext(c)
         \/ timeoutBranch(c) \/ receiveBranch(c)
         \/ cancelCall(c) \/ cancel(c) \/ cancelBody(c)
         \/ runDeferred(c) \/ addDoneCallbackConc(c)

\* Several callers on the same FutureTask.
SpecConc == Init /\ [][NextConc]_vars

\* The Go scheduler runs every goroutine that can run: the background
\* goroutine and a caller inside a method keep taking steps while they can,
\* and the deadline of a caller parked in getWithTimeout() passes in the end.
\* Nothing obliges a caller to make a call.
FairSpec ==
    /\ Spec
    /\ WF_vars(Background)
    /\ \A c \in SeqCallers : WF_vars(Returning(c))

\* ------------------------------------------------------------------ claims
Retrieval == {"get", "getWithTimeout"}
TimeoutResult == [value |-> Nil, error |-> TimeoutError]
CancelledResult == [value |-> Nil, error |-> InterruptError]
Waiting == {"select", "blocked", "recvd", "timeout"}

\* C1: once a getWithTimeout() call has taken the deadline branch, the Future
\* is done, not successful, its error is the TimeoutError, its cached Result
\* carries that error and no value, and every retrieval that has returned,
\* the timed-out call and every later get() or getWithTimeout(), returned
\* that cached Result, never the task's Result.
C1_TimeoutSticky ==
    timedOut =>
        /\ done /\ ~success
        /\ error = TimeoutError
        /\ result = TimeoutResult
        /\ \A c \in Callers :
             (pc[c] \in {"defer", "idle"} /\ op[c] \in Retrieval)
                 => ret[c].result = TimeoutResult

\* C1 witness: after the timeout the task has finished and offers its Result,
\* which is a success, and a later get() has returned the timeout.
C1_Witness ==
    \E c \in Callers :
        /\ timedOut /\ bgpc = "parked" /\ task.error = NoError
        /\ pc[c] = "idle" /\ op[c] = "get"
        /\ ret[c].result = TimeoutResult

C2_Post ==
    cancelOk =>
        /\ isCancelled /\ complete
        /\ result = CancelledResult
        /\ recvCount = 0
        /\ \A c \in Callers :
             /\ pc[c] \notin Waiting
             /\ (pc[c] = "idle" /\ op[c] = "get") => ret[c].result = CancelledResult

\* C2: a cancel() whose guard finds done = false and running = false goes on
\* to its body and returns true; from then on isCancelled() and complete()
\* are true, the cached Result is the CancelledError with no value, and a
\* get() returns it without waiting and without a receive from the channel.
C2_CancelBeforeStart ==
    [][/\ \A c \in Callers :
            /\ (pc[c] = "cancel" /\ pc'[c] # "cancel" /\ ~done /\ ~running)
                   => pc'[c] = "cancelBody"
            /\ (pc[c] = "cancelBody" /\ pc'[c] # "cancelBody")
                   => (ret'[c] = RetBool(TRUE) /\ cancelOk')
       /\ C2_Post']_vars

\* C2 witness: cancel() returned true before the goroutine started, the
\* goroutine then ran the task, and a get() returned the CancelledError.
C2_Witness ==
    \E c \in Callers :
        /\ cancelOk /\ bgpc = "parked" /\ isCancelled
        /\ pc[c] = "idle" /\ op[c] = "get"
        /\ ret[c].result = CancelledResult

\* C3: a cancel() whose guard finds the Future done or running returns false
\* at once and changes nothing: done, success, error, the cached Result and
\* the channel keep their values and no callback runs.
C3_CancelRefusedNoChange ==
    [][\A c \in Callers :
          (pc[c] = "cancel" /\ pc'[c] # "cancel" /\ (done \/ running))
              => /\ pc'[c] = "idle"
                 /\ ret'[c] = RetBool(FALSE)
                 /\ UNCHANGED <<done, success, error, result, channel,
                                cbCount, deferred>>]_vars

\* C3 witness: with a callback registered, cancel() has returned false on a
\* Future that is running and not done.
C3_Witness ==
    \E c \in Callers :
        /\ pc[c] = "idle" /\ op[c] = "cancel" /\ ret[c] = RetBool(FALSE)
        /\ running /\ ~done /\ callbackMethod # NoCallback
        /\ cbTotal = 0

C4_State ==
    got.n > 0 =>
        /\ done
        /\ result = got.result
        /\ taskRuns <= 1
        /\ \A c \in Callers :
             /\ pc[c] \notin Waiting
             /\ (pc[c] = "idle" /\ op[c] = "get") => ret[c].result = got.result

\* C4: once a get() has returned, every later get() returns the Result the
\* first one returned; no call waits, no receive from the channel completes,
\* the task is not run again and no callback runs again.
C4_IdempotentGet ==
    [][/\ got.n > 0 =>
            /\ recvCount' = recvCount
            /\ cbCount' = cbCount
            /\ taskRuns' <= 1
       /\ C4_State']_vars

\* C4 witness: a second get() has returned, after the goroutine has closed
\* the channel, with the Result of the first, which the channel delivered.
C4_Witness ==
    \E c \in Callers :
        /\ got.n = 2 /\ recvCount = 1 /\ channel.closed
        /\ pc[c] = "idle" /\ op[c] = "get"
        /\ ret[c].result = task /\ task # ZeroResult

\* C5: no more than one callback run happens per Future, and when a callback
\* was registered before the first get(), getWithTimeout() or cancel() call,
\* exactly one has happened once a call has recorded a terminal state and
\* returned, whatever that state is and whatever calls follow.
C5_CallbackOnce ==
    /\ cbTotal <= 1
    /\ (first.cb # NoCallback /\ done /\ \A c \in Callers : pc[c] # "defer")
           => cbTotal = 1

\* C5 witness: the callback registered first has run once, the Future timed
\* out, and a get() and then a cancel() have followed.
C5_Witness ==
    \E c \in Callers :
        /\ first.cb # NoCallback /\ cbCount[first.cb] = 1 /\ timedOut
        /\ got.n > 0 /\ pc[c] = "idle" /\ op[c] = "cancel"

\* C6: a getWithTimeout() call that waited returns the task's Result, with
\* success = true and no error when that Result carries none, whenever the
\* channel could deliver before the call's deadline passed: the deadline
\* never passed during the call, or the Result was on offer when it passed.
C6_GenuineBeforeDeadline ==
    \A c \in Callers :
        (/\ op[c] = "getWithTimeout" /\ pc[c] = "defer"
         /\ (~expired[c] \/ availAtDeadline[c]))
            => /\ ret[c].result = task
               /\ task.error = NoError => (success /\ error = NoError)

\* C7: isCancelled() is true exactly when a cancel() has succeeded on the
\* Future, whatever error the task put in its Result.
C7_CancelledOnlyByCancel == isCancelled <=> cancelOk

\* C8: the receive branch returns the task's Result unchanged and caches it,
\* sets done, and records success = false with exactly the task's error when
\* the Result carries one, success = true with no error when it carries none.
C8_ErrorBookkeeping ==
    [][\A c \in Callers :
          (pc[c] = "recvd" /\ pc'[c] # "recvd")
              => /\ ret'[c] = RetResult(task)
                 /\ result' = task
                 /\ done'
                 /\ IF task.error # NoError
                    THEN ~success' /\ error' = task.error
                    ELSE success' /\ error' = NoError]_vars

\* C8 witness: a getWithTimeout() has returned a task Result that carries an
\* error and a value, and the Future records that error.
C8_Witness ==
    \E c \in Callers :
        /\ pc[c] = "idle" /\ op[c] = "getWithTimeout" /\ recvCount = 1
        /\ task.error \in TaskErrors /\ task.value # Nil
        /\ ret[c].result = task /\ error = task.error /\ done /\ ~success

\* C9: whatever terminal state the Future reaches, the background goroutine
\* eventually completes its send, closes the channel, sets running = false
\* and exits.
C9_SenderCompletes == done ~> (bgpc = "exit" /\ channel.closed /\ ~running)

\* C10: with no cancel() involved, all callers whose get() or
\* getWithTimeout() has returned hold the same Result, which is still the
\* cached one.
C10_OneOutcome ==
    ~cancelOk =>
        \A c \in Callers :
            (pc[c] = "idle" /\ op[c] \in Retrieval)
                => /\ ret[c].result = result
                   /\ \A d \in Callers :
                        (pc[d] = "idle" /\ op[d] \in Retrieval)
                            => ret[d].result = ret[c].result

\* C11: under fair scheduling every get() call eventually returns to its
\* caller, whatever was called before it and however the background
\* goroutine's steps interleave with it.
C11_GetReturns ==
    \A c \in Callers : (pc[c] = "get") ~> (pc[c] = "idle" /\ op[c] = "get")

\* C11 witness: a get() that had to wait has returned the task's Result
\* after a cancel() had been refused.
C11_Witness ==
    \E c \in Callers :
        /\ pc[c] = "idle" /\ op[c] = "get" /\ got.n = 1 /\ recvCount = 1
        /\ ~first.avail /\ first.called /\ ret[c].result = task
        /\ bgpc = "exit"

C13_TerminalSticky ==
    [][done => /\ done'
               /\ success' = success
               /\ error' = error
               /\ result' = result
               /\ recvCount' = recvCount]_vars

\* C13 witness: after a timeout the goroutine has run the task and parked,
\* a callback was registered afterwards, and a cancel() has been refused;
\* the cached Result is still the timeout.
C13_Witness ==
    \E c \in Callers :
        /\ timedOut /\ bgpc = "parked" /\ first.cb = NoCallback
        /\ callbackMethod # NoCallback
        /\ pc[c] = "idle" /\ op[c] = "cancel"
        /\ result = TimeoutResult /\ done

\* C14: once the Future is terminal, running never changes from false to
\* true.
C14_NoRunAfterTerminal == [][done => (running' => running)]_vars

\* C15: the goroutine sets running before it calls the task, calls the task
\* once, sends one Result, closes the channel only after that Result was
\* received, and clears running only after the close; a Result is received
\* only after the task has returned.
C15_BackgroundOrder ==
    /\ taskRuns = (IF bgpc \in {"start", "task"} THEN 0 ELSE 1)
    /\ bgpc \in {"task", "send", "parked", "close", "unrun"} => running
    /\ bgpc \in {"start", "exit"} => ~running
    /\ recvCount <= 1
    /\ recvCount = 1 <=> bgpc \in {"close", "unrun", "exit"}
    /\ channel.closed <=> bgpc \in {"unrun", "exit"}
    /\ channel.sendq # <<>> <=> bgpc = "parked"
    /\ \A c \in Callers :
         pc[c] = "recvd" => (taskRuns = 1 /\ recvTmp[c] = task)
    /\ (done /\ ~timedOut /\ ~cancelOk) => (recvCount = 1 /\ taskRuns = 1)

\* C15 witness: the goroutine has gone through all its steps and the Future
\* is done by the delivery.
C15_Witness ==
    /\ bgpc = "exit" /\ channel.closed /\ ~running
    /\ done /\ recvCount = 1 /\ taskRuns = 1 /\ result = task

\* C16: when a call is about to run its deferred callback, the terminal
\* state is recorded and the value the call returns is fixed: done is true
\* and the cached Result is the one a retrieval returns, or, for cancel(),
\* the CancelledError Result with true returned.
C16_CallbackAfterTerminal ==
    \A c \in Callers :
        (pc[c] = "defer" /\ deferred[c] # NoCallback)
            => /\ done
               /\ cbCount[deferred[c]] = 0
               /\ op[c] \in Retrieval => ret[c].result = result
               /\ op[c] = "cancel"
                      => (ret[c] = RetBool(TRUE) /\ result = CancelledResult)

\* C16 witness: a successful cancel() is about to run the callback.
C16_Witness ==
    \E c \in Callers :
        /\ pc[c] = "defer" /\ deferred[c] # NoCallback /\ op[c] = "cancel"
        /\ done /\ result = CancelledResult

C17_State ==
    /\ ~first.called => cbTotal = 0
    /\ \A c \in Callers :
         deferred[c] # NoCallback
             => pc[c] \in Waiting \cup {"cancelBody", "defer"}

\* C17: a callback runs only in the deferred call of a get(),
\* getWithTimeout() or cancel(), and is deferred only by a get() or
\* getWithTimeout() that found done = false or by a cancel() that got past
\* its guard; the background goroutine never runs or defers one, so with no
\* call made no callback has run.
C17_CallbackLazy ==
    [][/\ cbCount' # cbCount =>
            \E c \in Callers :
                /\ pc[c] = "defer" /\ pc'[c] = "idle"
                /\ deferred[c] # NoCallback
                /\ cbCount' = [cbCount EXCEPT ![deferred[c]] = @ + 1]
       /\ \A c \in Callers :
            (deferred[c] = NoCallback /\ deferred'[c] # NoCallback)
                => \/ pc[c] \in {"get", "getWithTimeout"} /\ ~done
                   \/ pc[c] = "cancel" /\ ~done /\ ~running
       /\ C17_State']_vars

\* C17 witness: a callback is registered, the task has returned and the
\* goroutine is parked in its send, and with no call made no callback ran.
C17_Witness ==
    /\ ~first.called /\ callbackMethod # NoCallback
    /\ bgpc = "parked" /\ cbTotal = 0

\* C18: there is one callback slot: a callback that runs is the one most
\* recently passed to addDoneCallback, so of two callbacks registered before
\* the Future terminates the first is never invoked.
C18_SingleSlot ==
    [][\A f \in CallbackIds :
          cbCount'[f] # cbCount[f]
              => /\ f = lastReg[2]
                 /\ cbCount' = [cbCount EXCEPT ![f] = @ + 1]
                 /\ \A g \in CallbackIds \ {f} : cbCount[g] = 0]_vars

\* C18 witness: two different callbacks were registered and then a call
\* observed termination; the second ran and the first did not.
C18_Witness ==
    \E c \in Callers :
        /\ lastReg[1] # NoCallback /\ lastReg[2] # NoCallback
        /\ lastReg[1] # lastReg[2]
        /\ first.cb = lastReg[2]
        /\ pc[c] = "idle" /\ done
        /\ cbCount[lastReg[2]] = 1 /\ cbCount[lastReg[1]] = 0

\* C19: once a cancel() has returned true the cancellation is final, also
\* with another caller blocked in get() or getWithTimeout(): the Future stays
\* done with the CancelledError and the cached cancelled Result.
C19_CancelFinal ==
    (\E c \in Callers :
        pc[c] = "idle" /\ op[c] = "cancel" /\ ret[c] = RetBool(TRUE))
        => /\ done
           /\ error = InterruptError
           /\ result = CancelledResult

\* C20: with done = true the fields agree: success is true exactly when
\* error is nil, the cached Result's error is the recorded error, and a
\* timed-out or cancelled Future caches no value.
C20_FieldsConsistent ==
    done =>
        /\ success <=> (error = NoError)
        /\ result.error = error
        /\ error \in {TimeoutError, InterruptError} => result.value = Nil

\* C20 witness: each of the three places that write the terminal fields has
\* done so: here the deadline branch.
C20_Witness ==
    /\ done /\ timedOut /\ ~success
    /\ result = TimeoutResult /\ error = TimeoutError

=============================================================================
